---- MODULE Spec2Model ----
(***************************************************************************)
(* ReaParser: LoadProjectFile and the Parser stages it drives, modelled    *)
(* over the bytes of the project file.  A file is a string; fgets, fscanf  *)
(* and sscanf are modelled character by character, so indentation, partial *)
(* matches and the reuse of the line buffer behave as in the C library.    *)
(*                                                                         *)
(* float values are fixed-point integers (FloatScale units per 1.0); a     *)
(* Volume, the one field that passes through log10, is an extended value   *)
(* <<"fin", v>>, <<"-inf", 0>> or <<"nan", 0>>.                            *)
(***************************************************************************)
EXTENDS Integers, Sequences, FiniteSets, TLC

(***************************************************************************)
(* Bounds of the model.                                                    *)
(***************************************************************************)
\* free lines after the fixed prefix of a generated file body
MaxBody == 3

(***************************************************************************)
(* Program constants.                                                      *)
(***************************************************************************)
ReaBuffer_Max == 1024

\* fixed-point resolution of the float model: 1.0 is FloatScale
FloatScale == 1000

(***************************************************************************)
(* Characters and strings.                                                 *)
(***************************************************************************)
Ch(s, i) == IF i >= 1 /\ i <= Len(s) THEN SubSeq(s, i, i) ELSE ""

\* isspace(), as scanf's white-space directives and %s use it
IsSpace(c) == c \in {" ", "\t", "\n", "\r"}

IsDigit(c) == c \in {"0", "1", "2", "3", "4", "5", "6", "7", "8", "9"}

IsOctDigit(c) == c \in {"0", "1", "2", "3", "4", "5", "6", "7"}

DigitVal(c) ==
    CASE c = "0" -> 0 [] c = "1" -> 1 [] c = "2" -> 2 [] c = "3" -> 3
      [] c = "4" -> 4 [] c = "5" -> 5 [] c = "6" -> 6 [] c = "7" -> 7
      [] c = "8" -> 8 [] c = "9" -> 9

\* strncmp(s, p, strlen(p)) == 0
StartsWith(s, p) == Len(s) >= Len(p) /\ SubSeq(s, 1, Len(p)) = p

\* strcmp(a, b) == 0
StrEq(a, b) == a = b

RECURSIVE SkipSpace(_, _)
\* first position at or after i that holds no white space
SkipSpace(s, i) ==
    IF i <= Len(s) /\ IsSpace(Ch(s, i)) THEN SkipSpace(s, i + 1) ELSE i

RECURSIVE SpanNot(_, _, _)
\* first position at or after i that holds the character c, or the end
SpanNot(s, i, c) ==
    IF i <= Len(s) /\ Ch(s, i) # c THEN SpanNot(s, i + 1, c) ELSE i

RECURSIVE SpanNonSpace(_, _)
SpanNonSpace(s, i) ==
    IF i <= Len(s) /\ ~IsSpace(Ch(s, i)) THEN SpanNonSpace(s, i + 1) ELSE i

RECURSIVE SpanDigits(_, _)
SpanDigits(s, i) ==
    IF i <= Len(s) /\ IsDigit(Ch(s, i)) THEN SpanDigits(s, i + 1) ELSE i

RECURSIVE SpanOctDigits(_, _)
SpanOctDigits(s, i) ==
    IF i <= Len(s) /\ IsOctDigit(Ch(s, i)) THEN SpanOctDigits(s, i + 1) ELSE i

RECURSIVE NumValue(_, _, _, _)
\* value of the digits s[i..j-1] in the given base
NumValue(s, i, j, base) ==
    IF j <= i THEN 0
    ELSE NumValue(s, i, j - 1, base) * base + DigitVal(Ch(s, j - 1))

RECURSIVE Pow10(_)
Pow10(n) == IF n <= 0 THEN 1 ELSE 10 * Pow10(n - 1)

(***************************************************************************)
(* scanf conversions.  Each returns [ok, pos, val]: whether an input item  *)
(* was converted, the position after it, and its value.                    *)
(***************************************************************************)
IsHexDigit(c) ==
    IsDigit(c) \/ c \in {"a", "b", "c", "d", "e", "f", "A", "B", "C", "D", "E", "F"}

HexVal(c) ==
    CASE IsDigit(c) -> DigitVal(c)
      [] c \in {"a", "A"} -> 10 [] c \in {"b", "B"} -> 11
      [] c \in {"c", "C"} -> 12 [] c \in {"d", "D"} -> 13
      [] c \in {"e", "E"} -> 14 [] c \in {"f", "F"} -> 15

RECURSIVE SpanHexDigits(_, _)
SpanHexDigits(s, i) ==
    IF i <= Len(s) /\ IsHexDigit(Ch(s, i)) THEN SpanHexDigits(s, i + 1) ELSE i

RECURSIVE HexValue(_, _, _)
HexValue(s, i, j) ==
    IF j <= i THEN 0 ELSE HexValue(s, i, j - 1) * 16 + HexVal(Ch(s, j - 1))

Item(ok, pos, val) == [ok |-> ok, pos |-> pos, val |-> val]

\* the digits of a %i item that starts at j (after white space and sign):
\* 0x hex, 0 octal, or decimal
ConvIntDigits(s, j, sign) ==
    IF Ch(s, j) = "0" /\ Ch(s, j + 1) \in {"x", "X"}
    THEN Item(SpanHexDigits(s, j + 2) > j + 2, SpanHexDigits(s, j + 2),
              sign * HexValue(s, j + 2, SpanHexDigits(s, j + 2)))
    ELSE IF Ch(s, j) = "0"
    THEN Item(TRUE, SpanOctDigits(s, j), sign * NumValue(s, j, SpanOctDigits(s, j), 8))
    ELSE Item(SpanDigits(s, j) > j, SpanDigits(s, j),
              sign * NumValue(s, j, SpanDigits(s, j), 10))

ConvIntSigned(s, i) ==
    ConvIntDigits(s, IF Ch(s, i) \in {"-", "+"} THEN i + 1 ELSE i,
                     IF Ch(s, i) = "-" THEN -1 ELSE 1)

\* %i: white space, an optional sign, then the digits
ConvInt(s, i0) == ConvIntSigned(s, SkipSpace(s, i0))

\* a %f item with integer digits s[j..e1-1] and fraction digits
\* s[e1+1..e2-1] (none when e2 = e1).  The value is kept to three fraction
\* digits (FloatScale).
FloatItem(s, j, e1, e2, sign) ==
    Item((e1 - j) + (IF e2 > e1 THEN e2 - e1 - 1 ELSE 0) >= 1,
         e2,
         sign * (NumValue(s, j, e1, 10) * FloatScale
                   + (IF e2 - e1 - 1 >= 3
                      THEN NumValue(s, e1 + 1, e1 + 4, 10)
                      ELSE IF e2 > e1
                      THEN NumValue(s, e1 + 1, e2, 10) * Pow10(3 - (e2 - e1 - 1))
                      ELSE 0)))

ConvFloatFraction(s, j, e1, sign) ==
    FloatItem(s, j, e1, IF Ch(s, e1) = "." THEN SpanDigits(s, e1 + 1) ELSE e1, sign)

ConvFloatSigned(s, i) ==
    ConvFloatFraction(s, IF Ch(s, i) \in {"-", "+"} THEN i + 1 ELSE i,
                         SpanDigits(s, IF Ch(s, i) \in {"-", "+"} THEN i + 1 ELSE i),
                         IF Ch(s, i) = "-" THEN -1 ELSE 1)

\* %f: white space, an optional sign, digits with an optional fraction;
\* exponent, inf and nan forms are outside the inputs of the model
ConvFloat(s, i0) == ConvFloatSigned(s, SkipSpace(s, i0))

(***************************************************************************)
(* A scanf format is a sequence of directives.  Scan returns the values    *)
(* assigned, in order; their number is what scanf returns (an input        *)
(* failure before the first conversion, EOF, assigns none).                *)
(***************************************************************************)
WS         == [d |-> "ws",   c |-> ""]
Lit(c)     == [d |-> "lit",  c |-> c]
ConvI      == [d |-> "i",    c |-> ""]
SkipI      == [d |-> "*i",   c |-> ""]
ConvF      == [d |-> "f",    c |-> ""]
SkipF      == [d |-> "*f",   c |-> ""]
ConvS      == [d |-> "s",    c |-> ""]
SkipS      == [d |-> "*s",   c |-> ""]
Skip32S    == [d |-> "*32s", c |-> ""]
SetNot(c)  == [d |-> "[^",   c |-> c]

\* end of a %s item that starts at j, within the field width
StrEnd(s, j, width) ==
    IF width > 0 /\ SpanNonSpace(s, j) > j + width THEN j + width
    ELSE SpanNonSpace(s, j)

RECURSIVE Scan(_, _, _, _, _)
RECURSIVE ScanNumber(_, _, _, _, _, _)
RECURSIVE ScanText(_, _, _, _, _, _, _)

\* a numeric conversion with result r
ScanNumber(s, fmt, k, out, r, assign) ==
    IF ~r.ok THEN out
    ELSE Scan(s, r.pos, fmt, k + 1, IF assign THEN Append(out, r.val) ELSE out)

\* a string conversion of s[j..e-1]
ScanText(s, fmt, k, out, j, e, assign) ==
    IF e = j THEN out
    ELSE Scan(s, e, fmt, k + 1, IF assign THEN Append(out, SubSeq(s, j, e - 1)) ELSE out)

Scan(s, i, fmt, k, out) ==
    IF k > Len(fmt) THEN out
    ELSE CASE fmt[k].d = "ws" -> Scan(s, SkipSpace(s, i), fmt, k + 1, out)
           [] fmt[k].d = "lit" ->
                IF i + Len(fmt[k].c) - 1 <= Len(s)
                   /\ SubSeq(s, i, i + Len(fmt[k].c) - 1) = fmt[k].c
                THEN Scan(s, i + Len(fmt[k].c), fmt, k + 1, out)
                ELSE out
           [] fmt[k].d \in {"i", "*i"} ->
                ScanNumber(s, fmt, k, out, ConvInt(s, i), fmt[k].d = "i")
           [] fmt[k].d \in {"f", "*f"} ->
                ScanNumber(s, fmt, k, out, ConvFloat(s, i), fmt[k].d = "f")
           [] fmt[k].d = "[^" ->
                ScanText(s, fmt, k, out, i, SpanNot(s, i, fmt[k].c), TRUE)
           [] fmt[k].d \in {"s", "*s", "*32s"} ->
                ScanText(s, fmt, k, out, SkipSpace(s, i),
                         StrEnd(s, SkipSpace(s, i), IF fmt[k].d = "*32s" THEN 32 ELSE 0),
                         fmt[k].d = "s")

\* sscanf(s, fmt, ...) and fscanf from the start of a stream
Sscanf(s, fmt) == Scan(s, 1, fmt, 1, <<>>)

(***************************************************************************)
(* The format strings of the parser, directive by directive.               *)
(***************************************************************************)
\* "<REAPER_PROJECT %*f \"%i.%i/%[^\"]s\" %*i"
FmtHeader ==
    << Lit("<REAPER_PROJECT"), WS, SkipF, WS, Lit("\""), ConvI, Lit("."), ConvI,
       Lit("/"), SetNot("\""), Lit("s\""), WS, SkipI >>

\* "  SAMPLERATE %i %*i %*i"
FmtSampleRate == << WS, Lit("SAMPLERATE"), WS, ConvI, WS, SkipI, WS, SkipI >>

\* "  TEMPO %f %i %i"
FmtTempo == << WS, Lit("TEMPO"), WS, ConvF, WS, ConvI, WS, ConvI >>

\* "  <TRACK {%[^}]s}"
FmtTrack == << WS, Lit("<TRACK"), WS, Lit("{"), SetNot("}"), Lit("s}") >>

\* "    NAME \"%[^\"]s\""  and  "      NAME \"%[^\"]s\""
FmtNameQuoted == << WS, Lit("NAME"), WS, Lit("\""), SetNot("\""), Lit("s\"") >>

\* "    NAME %s"  and  "      NAME %s"
FmtNameBare == << WS, Lit("NAME"), WS, ConvS >>

\* "    VOLPAN %f %f %*i %*i %*i"
FmtTrackVolPan ==
    << WS, Lit("VOLPAN"), WS, ConvF, WS, ConvF, WS, SkipI, WS, SkipI, WS, SkipI >>

\* "    IPHASE %i"
FmtIPhase == << WS, Lit("IPHASE"), WS, ConvI >>

\* "    MUTESOLO %i %*i %*i"
FmtMuteSolo == << WS, Lit("MUTESOLO"), WS, ConvI, WS, SkipI, WS, SkipI >>

\* "  MASTER_NCH %*i %i"
FmtMasterNch == << WS, Lit("MASTER_NCH"), WS, SkipI, WS, ConvI >>

\* "  MASTER_VOLUME %f %f %*i %*i %*i"
FmtMasterVolume ==
    << WS, Lit("MASTER_VOLUME"), WS, ConvF, WS, ConvF, WS, SkipI, WS, SkipI, WS, SkipI >>

\* "      POSITION %f"
FmtPosition == << WS, Lit("POSITION"), WS, ConvF >>

\* "      LENGTH %f"
FmtLength == << WS, Lit("LENGTH"), WS, ConvF >>

\* "      MUTE %i %*i"
FmtMute == << WS, Lit("MUTE"), WS, ConvI, WS, SkipI >>

\* "      VOLPAN %f %f %*f %*f"
FmtItemVolPan == << WS, Lit("VOLPAN"), WS, ConvF, WS, ConvF, WS, SkipF, WS, SkipF >>

\* "        FILE \"%[^\"]s\" %*f"
FmtFile == << WS, Lit("FILE"), WS, Lit("\""), SetNot("\""), Lit("s\""), WS, SkipF >>

\* "      <%*s \"%[^:]: %[^\"]\" %s 0 \"\" %*i<%*32s> \"\""
FmtFX ==
    << WS, Lit("<"), SkipS, WS, Lit("\""), SetNot(":"), Lit(":"), WS, SetNot("\""),
       Lit("\""), WS, ConvS, WS, Lit("0"), WS, Lit("\"\""), WS, SkipI, Lit("<"),
       Skip32S, Lit(">"), WS, Lit("\"\"") >>

\* "      <JS %s \"\""
FmtJS == << WS, Lit("<JS"), WS, ConvS, WS, Lit("\"\"") >>

(***************************************************************************)
(* Values of the data structs.                                             *)
(***************************************************************************)
Fin(v) == <<"fin", v>>
NegInf == <<"-inf", 0>>
NaN    == <<"nan", 0>>

\* struct ReaOptions with its default member initializers
DefaultOptions == [ConvertVolumeToDB |-> TRUE, NormalizePan |-> TRUE]

\* a default-constructed ReaProject
NewProject ==
    [Name       |-> "",
     Filepath   |-> "",
     Version    |-> [Platform |-> "Undefined", Major |-> 0, Minor |-> 0],
     Tracks     |-> <<>>,
     Tempo      |-> [Beats |-> 0, Bars |-> 0, BPM |-> 0],
     SampleRate |-> 0,
     m_valid    |-> FALSE,
     m_options  |-> DefaultOptions]

\* a default-constructed ReaTrack (m_project is the enclosing project)
NewTrack ==
    [Name          |-> "",
     GUID          |-> "",
     Volume        |-> Fin(0),
     Pan           |-> 0,
     NumericID     |-> 0,
     Channels      |-> 0,
     Muted         |-> FALSE,
     PhaseInverted |-> FALSE,
     MediaItems    |-> <<>>,
     FXChain       |-> <<>>]

\* a default-constructed ReaMediaItem
NewItem ==
    [Name     |-> "",
     Filepath |-> "",
     Volume   |-> Fin(0),
     Pan      |-> 0,
     Muted    |-> FALSE,
     Type     |-> "Undefined",
     Start    |-> 0,
     End      |-> 0,
     Length   |-> 0]

\* enum class ReaFXType
FXTypeValues == {"Undefined", "VST", "VST3", "VSTi", "VST3i", "AU", "AUi", "JS"}

\* a ReaFX as LoadFX declares it: the strings are empty, Type has no
\* initializer and holds an indeterminate value until it is assigned
Indeterminate == "<indeterminate>"
NewFX == [Name |-> "", Filepath |-> "", Data |-> "", Type |-> Indeterminate]

\* what an indeterminate char array can turn out to hold when read as a string
IndeterminateStrings == {"", "<garbage>"}

NoException == [type |-> "none", what |-> ""]
BadFile(what) == [type |-> "BadFile", what |-> what]

(***************************************************************************)
(* Util::ToDecibel and the option handling of the three load routines.     *)
(***************************************************************************)
RECURSIVE Log10Fixed(_)
\* log10 of a positive fixed-point value, as a fixed-point value: exact on
\* the powers of ten, to three digits on 2 and 5 times a power of ten,
\* interpolated elsewhere
Log10Fixed(a) ==
    IF a >= 10 * FloatScale THEN Log10Fixed(a \div 10) + FloatScale
    ELSE IF a < FloatScale THEN Log10Fixed(a * 10) - FloatScale
    ELSE CASE a = FloatScale     -> 0
           [] a = 2 * FloatScale -> 301
           [] a = 5 * FloatScale -> 699
           [] OTHER -> ((a - FloatScale) * FloatScale) \div (9 * FloatScale)

\* a defect variant of ToDecibel: silence is clamped to 0 dB
ToDecibelClamped(amplitude) ==
    IF amplitude = 0 THEN Fin(0)
    ELSE IF amplitude < 0 THEN NaN
    ELSE Fin(20 * Log10Fixed(amplitude))

\* 20.0f * log10(amplitude): log10(0) is -infinity, log10 of a negative is NaN
ToDecibel(amplitude) ==
    IF amplitude = 0 THEN NegInf
    ELSE IF amplitude < 0 THEN NaN
    ELSE Fin(20 * Log10Fixed(amplitude))

\* LoadTracks, "Apply options"
ApplyOptionsTrack(t, opts) ==
    [t EXCEPT !.Volume = IF opts.ConvertVolumeToDB THEN ToDecibel(t.Volume[2]) ELSE @,
              !.Pan    = IF ~opts.NormalizePan THEN @ * 100 ELSE @]

\* LoadMasterTrack, "Apply options"
ApplyOptionsMaster(m, opts) ==
    [m EXCEPT !.Volume = IF opts.ConvertVolumeToDB THEN ToDecibel(m.Volume[2]) ELSE @,
              !.Pan    = IF ~opts.NormalizePan THEN @ * 100 ELSE @]

\* a defect variant of ApplyOptionsItem: the pan scaling hangs on the
\* volume flag
ApplyOptionsItemCoupled(it, opts) ==
    [it EXCEPT !.Volume = IF opts.ConvertVolumeToDB THEN ToDecibel(it.Volume[2]) ELSE @,
               !.Pan    = IF ~opts.ConvertVolumeToDB THEN @ * 100 ELSE @]

\* LoadMediaItem, "Apply options"
ApplyOptionsItem(it, opts) ==
    [it EXCEPT !.Volume = IF opts.ConvertVolumeToDB THEN ToDecibel(it.Volume[2]) ELSE @,
               !.Pan    = IF ~opts.NormalizePan THEN @ * 100 ELSE @]

\* a defect variant of SetItemEnd: End is left as the lines set it
KeepItemEnd(it) == it

\* item.End = item.Start + item.Length
SetItemEnd(it) == [it EXCEPT !.End = it.Start + it.Length]

(***************************************************************************)
(* The stream: fgets and rewind over the bytes of the file.                *)
(***************************************************************************)
\* index of the last character fgets stores when it starts reading at i:
\* the first newline of s[i..lim], or lim when there is none
ChunkEnd(s, i, lim) ==
    IF \E j \in i..lim : Ch(s, j) = "\n"
    THEN CHOOSE j \in i..lim :
           Ch(s, j) = "\n" /\ \A k \in i..(j - 1) : Ch(s, k) # "\n"
    ELSE lim

\* the chunk s[p+1..e] as fgets returns it
Chunk(s, p, e) == [ok |-> TRUE, buf |-> SubSeq(s, p + 1, e), pos |-> e]

\* fgets(buffer, ReaBuffer_Max, fp) with fp at offset p: at most
\* ReaBuffer_Max - 1 characters, up to and including a newline
Fgets(s, p) ==
    IF p >= Len(s) THEN [ok |-> FALSE, buf |-> "", pos |-> p]
    ELSE Chunk(s, p, ChunkEnd(s, p + 1, IF p + ReaBuffer_Max - 1 < Len(s)
                                        THEN p + ReaBuffer_Max - 1 ELSE Len(s)))

(***************************************************************************)
(* std::string helpers.                                                    *)
(***************************************************************************)
RECURSIVE FindLastOf(_, _, _)
\* find_last_of: the last position at or before i holding one of chars,
\* 0 for npos
FindLastOf(s, chars, i) ==
    IF i < 1 THEN 0
    ELSE IF Ch(s, i) \in chars THEN i
    ELSE FindLastOf(s, chars, i - 1)

\* substr(0, endIndex) when the name holds a "."
StripExtension(name) ==
    IF FindLastOf(name, {"."}, Len(name)) # 0
    THEN SubSeq(name, 1, FindLastOf(name, {"."}, Len(name)) - 1)
    ELSE name

\* substr(startIndex + 1, size) when the path holds a separator
StripDirectory(path) ==
    IF FindLastOf(path, {"/", "\\"}, Len(path)) # 0
    THEN SubSeq(path, FindLastOf(path, {"/", "\\"}, Len(path)) + 1, Len(path))
    ELSE path

\* LoadMetadata, "Set name"
DeriveName(path) == StripExtension(StripDirectory(path))

RECURSIVE RemoveChars(_, _)
\* erase(remove(...)) for each of the characters in chars
RemoveChars(s, chars) ==
    IF Len(s) = 0 THEN ""
    ELSE IF Ch(s, 1) \in chars THEN RemoveChars(SubSeq(s, 2, Len(s)), chars)
    ELSE Ch(s, 1) \o RemoveChars(SubSeq(s, 2, Len(s)), chars)

RECURSIVE FirstNonBlank(_, _)
FirstNonBlank(s, i) ==
    IF i > Len(s) THEN 0
    ELSE IF Ch(s, i) # " " THEN i
    ELSE FirstNonBlank(s, i + 1)

\* LoadFX, "remove leading spaces": erase up to the first character that is
\* no space; a string of spaces only is left as it is
TrimLeadingSpaces(s) ==
    IF FirstNonBlank(s, 1) = 0 THEN s ELSE SubSeq(s, FirstNonBlank(s, 1), Len(s))

\* LoadFX, the prefix tests on the typename capture, in the order written
ClassifyFX(typeName) ==
    IF StartsWith(typeName, "VST") THEN "VST"
    ELSE IF StartsWith(typeName, "VST3") THEN "VST3"
    ELSE IF StartsWith(typeName, "VSTi") THEN "VSTi"
    ELSE IF StartsWith(typeName, "VST3i") THEN "VST3i"
    ELSE IF StartsWith(typeName, "AU") THEN "AU"
    ELSE IF StartsWith(typeName, "AUi") THEN "AUi"
    ELSE Indeterminate

\* the block markers the loops compare line prefixes with
trackFooter   == "  >"
itemHeader    == "    <ITEM"
fxChainHeader == "    <FXCHAIN"
itemFooter    == "    >"
midiHeader    == "      <SOURCE MIDI"
waveHeader    == "      <SOURCE WAVE"
mp3Header     == "      <SOURCE MP3"
fxChainFooter == "    >"
fxFooter      == "      >"
jsHeader      == "      <JS "

(***************************************************************************)
(* What one line does to the entity a loop is filling in.  The sscanf      *)
(* results are passed on as sequences of assigned values.  A NAME capture  *)
(* is written into the buffer it was read from, so the tests after it see  *)
(* the captured text.                                                      *)
(***************************************************************************)
PropertyAssign(proj, sr, tp) ==
    [proj EXCEPT
       !.SampleRate = IF Len(sr) >= 1 THEN sr[1] ELSE @,
       !.Tempo = [BPM   |-> IF Len(tp) >= 1 THEN tp[1] ELSE @.BPM,
                  Beats |-> IF Len(tp) >= 2 THEN tp[2] ELSE @.Beats,
                  Bars  |-> IF Len(tp) >= 3 THEN tp[3] ELSE @.Bars]]

\* LoadProperties, loop body
PropertyFields(proj, buf) ==
    PropertyAssign(proj, Sscanf(buf, FmtSampleRate), Sscanf(buf, FmtTempo))

MasterAssign(m, nch, vol) ==
    [m EXCEPT
       !.Channels = IF Len(nch) >= 1 THEN nch[1] ELSE @,
       !.Volume   = IF Len(vol) >= 1 THEN Fin(vol[1]) ELSE @,
       !.Pan      = IF Len(vol) >= 2 THEN vol[2] ELSE @]

\* LoadMasterTrack, loop body
MasterFields(m, buf) ==
    MasterAssign(m, Sscanf(buf, FmtMasterNch), Sscanf(buf, FmtMasterVolume))

NameResult(buf, nq, nb) ==
    IF Len(nq) = 1 THEN [hit |-> TRUE, buf |-> nq[1]]
    ELSE IF Len(nb) = 1 THEN [hit |-> TRUE, buf |-> nb[1]]
    ELSE [hit |-> FALSE, buf |-> buf]

\* the two NAME tests: whether one matched, and the buffer after them
NameScan(buf) == NameResult(buf, Sscanf(buf, FmtNameQuoted), Sscanf(buf, FmtNameBare))

TrackAssign(t, nm, vp, ip, ms) ==
    [buf |-> nm.buf,
     val |-> [t EXCEPT
                !.Name          = IF nm.hit THEN nm.buf ELSE @,
                !.Volume        = IF Len(vp) >= 1 THEN Fin(vp[1]) ELSE @,
                !.Pan           = IF Len(vp) >= 2 THEN vp[2] ELSE @,
                !.PhaseInverted = IF Len(ip) = 1 THEN ip[1] # 0 ELSE @,
                !.Muted         = IF Len(ms) = 1 THEN ms[1] # 0 ELSE @]]

TrackFieldsNamed(t, nm) ==
    TrackAssign(t, nm, Sscanf(nm.buf, FmtTrackVolPan), Sscanf(nm.buf, FmtIPhase),
                Sscanf(nm.buf, FmtMuteSolo))

\* LoadTracks, inner loop body up to the nested-block tests: the track and
\* the buffer after it
TrackFields(t, buf0) == TrackFieldsNamed(t, NameScan(buf0))

\* MUTE is read with %i into the bool: its byte is the low byte of the value
ItemAssign(it, ps, ln, mu, nm, vp) ==
    [buf |-> nm.buf,
     val |-> [it EXCEPT
                !.Start  = IF Len(ps) >= 1 THEN ps[1] ELSE @,
                !.Length = IF Len(ln) >= 1 THEN ln[1] ELSE @,
                !.Muted  = IF Len(mu) >= 1 THEN (mu[1] % 256) # 0 ELSE @,
                !.Name   = IF nm.hit THEN nm.buf ELSE @,
                !.Volume = IF Len(vp) >= 1 THEN Fin(vp[1]) ELSE @,
                !.Pan    = IF Len(vp) >= 2 THEN vp[2] ELSE @]]

ItemFieldsNamed(it, ps, ln, mu, nm) ==
    ItemAssign(it, ps, ln, mu, nm, Sscanf(nm.buf, FmtItemVolPan))

\* LoadMediaItem, loop body up to the source tests: the item and the buffer
\* after it
ItemFields(it, buf0) ==
    ItemFieldsNamed(it, Sscanf(buf0, FmtPosition), Sscanf(buf0, FmtLength),
                    Sscanf(buf0, FmtMute), NameScan(buf0))

\* LoadMediaItem after the loop: options, End
FinishItem(it, opts) == SetItemEnd(ApplyOptionsItem(it, opts))

\* LoadFX, "Strip any tab, space and Windows \r characters from data string"
FinishFX(f) == [f EXCEPT !.Data = RemoveChars(@, {"\t", " ", "\r"})]

(***************************************************************************)
(* State.                                                                  *)
(***************************************************************************)
VARIABLES
    filepath,     \* argument of LoadProjectFile
    options,      \* argument of LoadProjectFile
    fileExists,   \* whether fopen(filepath, "rb") succeeds
    content,      \* the bytes of the file
    pc,           \* where LoadProjectFile is
    fp,           \* the FILE*: [open, pos], pos the offset of the next read
    project,      \* LoadProjectFile's local ReaProject
    master,       \* LoadMasterTrack's local
    trackCount,   \* LoadTracks' local
    track,        \* LoadTracks' local, the track being read
    item,         \* LoadMediaItem's local
    fx,           \* LoadFX's local, the plugin entry being read
    buffer,       \* LoadFX's line buffer while a plugin's data is read
    fxTypeName,   \* LoadFX's locals; indeterminate until sscanf writes them
    fxName,
    fxFile,
    exception,    \* the exception thrown out of LoadProjectFile, if any
    returned      \* the caller's ReaProject: default-constructed, assigned
                  \* from LoadProjectFile's return value

vars == << filepath, options, fileExists, content, pc, fp, project, master,
           trackCount, track, item, fx, buffer, fxTypeName, fxName, fxFile,
           exception, returned >>

inputs == << filepath, options, fileExists, content >>

fxLocals == << fx, buffer, fxTypeName, fxName, fxFile >>

(***************************************************************************)
(* LoadProjectFile                                                         *)
(***************************************************************************)
\* a defect variant of InvalidWhat: the message of the other failure
SameMessage(path) == "Unable to load Reaper project: " \o path

\* the messages of the two BadFile exceptions
UnreadableWhat(path) == "Unable to load Reaper project: " \o path
InvalidWhat(path)    == "Invalid Reaper project: " \o path

\* a defect variant of OpenedProject: the flag is set before the stages run
OpenedValidProject(opts, path) ==
    [NewProject EXCEPT !.m_options = opts, !.Filepath = path, !.m_valid = TRUE]

\* the project as it is before the stages run
OpenedProject(opts, path) ==
    [NewProject EXCEPT !.m_options = opts, !.Filepath = path]

\* project.m_options = options; fopen; throw, or project.Filepath = filepath
Open ==
    /\ pc = "start"
    /\ IF ~fileExists
       THEN /\ exception' = BadFile(UnreadableWhat(filepath))
            /\ project' = [NewProject EXCEPT !.m_options = options]
            /\ pc' = "failed"
            /\ UNCHANGED fp
       ELSE /\ project' = OpenedProject(options, filepath)
            /\ fp' = [open |-> TRUE, pos |-> 0]
            /\ pc' = "metadata"
            /\ UNCHANGED exception
    /\ UNCHANGED << inputs, master, trackCount, track, item, fxLocals, returned >>

\* the platform a header's third capture selects
PlatformOf(code, old) ==
    IF StrEq(code, "win64") \/ StrEq(code, "win32") THEN "Windows"
    ELSE IF StrEq(code, "OSX64") \/ StrEq(code, "OSX32") THEN "OSX"
    ELSE old

\* the header test: fscanf has made its three conversions
HeaderAccepted(h) == Len(h) = 3

\* Version as the conversions of the header fscanf leave it
HeaderVersion(v, h) ==
    [v EXCEPT !.Major    = IF Len(h) >= 1 THEN h[1] ELSE @,
              !.Minor    = IF Len(h) >= 2 THEN h[2] ELSE @,
              !.Platform = IF Len(h) >= 3 THEN PlatformOf(h[3], @) ELSE @]

\* Parser::LoadMetadata: fscanf at the start of the stream; when the header
\* is not accepted the exception leaves with the stream still open
LoadMetadata ==
    /\ pc = "metadata"
    /\ \E h \in {Sscanf(content, FmtHeader)} :
         IF HeaderAccepted(h)
         THEN /\ project' = [project EXCEPT
                               !.Version = HeaderVersion(@, h),
                               !.Name    = DeriveName(project.Filepath)]
              /\ fp' = [fp EXCEPT !.pos = 0]
              /\ pc' = "properties"
              /\ UNCHANGED exception
         ELSE /\ project' = [project EXCEPT !.Version = HeaderVersion(@, h)]
              /\ exception' = BadFile(InvalidWhat(project.Filepath))
              /\ pc' = "failed"
              /\ UNCHANGED fp
    /\ UNCHANGED << inputs, master, trackCount, track, item, fxLocals, returned >>

(***************************************************************************)
(* Parser::LoadProperties                                                  *)
(***************************************************************************)
LoadProperties_Line ==
    /\ pc = "properties"
    /\ \E r \in {Fgets(content, fp.pos)} :
         /\ r.ok
         /\ project' = PropertyFields(project, r.buf)
         /\ fp' = [fp EXCEPT !.pos = r.pos]
    /\ UNCHANGED << inputs, pc, master, trackCount, track, item, fxLocals,
                    exception, returned >>

\* a defect variant of NewMaster: the GUID is never assigned
MasterUnnamed == [NewTrack EXCEPT !.Name = "MASTER"]

\* LoadMasterTrack's local as it is set up before its loop
NewMaster == [NewTrack EXCEPT !.GUID = "0", !.Name = "MASTER"]

\* end of input: rewind, return; LoadTracks enters LoadMasterTrack
LoadProperties_Eof ==
    /\ pc = "properties"
    /\ ~Fgets(content, fp.pos).ok
    /\ fp' = [fp EXCEPT !.pos = 0]
    /\ master' = NewMaster
    /\ pc' = "master"
    /\ UNCHANGED << inputs, project, trackCount, track, item, fxLocals,
                    exception, returned >>

(***************************************************************************)
(* Parser::LoadMasterTrack                                                 *)
(***************************************************************************)
LoadMasterTrack_Line ==
    /\ pc = "master"
    /\ \E r \in {Fgets(content, fp.pos)} :
         /\ r.ok
         /\ master' = MasterFields(master, r.buf)
         /\ fp' = [fp EXCEPT !.pos = r.pos]
    /\ UNCHANGED << inputs, pc, project, trackCount, track, item, fxLocals,
                    exception, returned >>

\* after the loop: options, push_back
PushMaster(proj, m) ==
    [proj EXCEPT !.Tracks = Append(@, ApplyOptionsMaster(m, proj.m_options))]

\* a defect variant of LoadMasterTrack_Eof: the rewind is left out
LoadMasterTrack_EofNoRewind ==
    /\ pc = "master"
    /\ ~Fgets(content, fp.pos).ok
    /\ project' = PushMaster(project, master)
    /\ master' = NewTrack
    /\ trackCount' = 0
    /\ pc' = "tracks"
    /\ UNCHANGED << inputs, fp, track, item, fxLocals, exception, returned >>

\* end of input: options, push_back, rewind; LoadTracks goes on with
\* trackCount = 0
LoadMasterTrack_Eof ==
    /\ pc = "master"
    /\ ~Fgets(content, fp.pos).ok
    /\ project' = PushMaster(project, master)
    /\ master' = NewTrack
    /\ fp' = [fp EXCEPT !.pos = 0]
    /\ trackCount' = 0
    /\ pc' = "tracks"
    /\ UNCHANGED << inputs, track, item, fxLocals, exception, returned >>

(***************************************************************************)
(* Parser::LoadTracks                                                      *)
(***************************************************************************)
\* a defect variant of OpenTrack: trackCount++ in place of ++trackCount
OpenTrackPostIncrement(guid, count) ==
    [NewTrack EXCEPT !.GUID = guid, !.NumericID = count]

\* the track a track-open line starts: GUID, NumericID = ++trackCount
OpenTrack(guid, count) == [NewTrack EXCEPT !.GUID = guid, !.NumericID = count + 1]

\* outer loop: a line, a new track when it is a track-open line
LoadTracks_Scan ==
    /\ pc = "tracks"
    /\ \E r \in {Fgets(content, fp.pos)} :
         /\ r.ok
         /\ fp' = [fp EXCEPT !.pos = r.pos]
         /\ \E t \in {Sscanf(r.buf, FmtTrack)} :
              IF Len(t) = 1
              THEN /\ track' = OpenTrack(t[1], trackCount)
                   /\ trackCount' = trackCount + 1
                   /\ pc' = "trackBody"
              ELSE UNCHANGED << track, trackCount, pc >>
    /\ UNCHANGED << inputs, project, master, item, fxLocals, exception, returned >>

\* a defect variant of Validated: the flag is never set
NotValidated(proj) == proj

\* LoadProjectFile after the stages: m_valid = true
Validated(proj) == [proj EXCEPT !.m_valid = TRUE]

\* outer loop at end of input: LoadTracks returns, LoadProjectFile closes
\* the stream, sets m_valid and returns the project
LoadTracks_Eof ==
    /\ pc = "tracks"
    /\ ~Fgets(content, fp.pos).ok
    /\ fp' = [fp EXCEPT !.open = FALSE]
    /\ project' = Validated(project)
    /\ returned' = project'
    /\ pc' = "done"
    /\ UNCHANGED << inputs, master, trackCount, track, item, fxLocals, exception >>

\* after the inner loop: options, push_back
PushTrack(proj, t) ==
    [proj EXCEPT !.Tracks = Append(@, ApplyOptionsTrack(t, proj.m_options))]

\* inner loop: a line of the track body
LoadTracks_Body ==
    /\ pc = "trackBody"
    /\ \E r \in {Fgets(content, fp.pos)} :
         /\ r.ok
         /\ fp' = [fp EXCEPT !.pos = r.pos]
         /\ IF StartsWith(r.buf, trackFooter)
            THEN /\ project' = PushTrack(project, track)
                 /\ track' = NewTrack
                 /\ pc' = "tracks"
                 /\ UNCHANGED << item, fxLocals >>
            ELSE \E f \in {TrackFields(track, r.buf)} :
                 /\ track' = f.val
                 /\ UNCHANGED project
                 /\ IF StartsWith(f.buf, itemHeader)
                    THEN /\ item' = NewItem
                         /\ pc' = "item"
                         /\ UNCHANGED fxLocals
                    ELSE IF StartsWith(f.buf, fxChainHeader)
                    THEN /\ fxTypeName' = Indeterminate
                         /\ fxName' = Indeterminate
                         /\ fxFile' = Indeterminate
                         /\ pc' = "fx"
                         /\ UNCHANGED << item, fx, buffer >>
                    ELSE UNCHANGED << item, fxLocals, pc >>
    /\ UNCHANGED << inputs, master, trackCount, exception, returned >>

\* a defect variant of LoadTracks_BodyEof: a track whose body the end of
\* input cuts off is dropped
LoadTracks_BodyEofDropsTrack ==
    /\ pc = "trackBody"
    /\ ~Fgets(content, fp.pos).ok
    /\ track' = NewTrack
    /\ pc' = "tracks"
    /\ UNCHANGED << inputs, fp, project, master, trackCount, item, fxLocals,
                    exception, returned >>

\* inner loop at end of input: the track is finished as at its footer
LoadTracks_BodyEof ==
    /\ pc = "trackBody"
    /\ ~Fgets(content, fp.pos).ok
    /\ project' = PushTrack(project, track)
    /\ track' = NewTrack
    /\ pc' = "tracks"
    /\ UNCHANGED << inputs, fp, master, trackCount, item, fxLocals, exception,
                    returned >>

(***************************************************************************)
(* Parser::LoadMediaItem                                                   *)
(***************************************************************************)
\* whether the line is a sample source header, after which the loop body
\* reads a second line
IsSampleHeader(buf) == StartsWith(buf, waveHeader) \/ StartsWith(buf, mp3Header)

SourceAssign(it, buf, fl) ==
    [it EXCEPT
       !.Type     = IF IsSampleHeader(buf) THEN "Sample"
                    ELSE IF StartsWith(buf, midiHeader) THEN "Midi" ELSE @,
       !.Filepath = IF IsSampleHeader(buf) /\ Len(fl) = 1 THEN fl[1] ELSE @]

\* the source tests of the loop body.  r2 is the fgets a sample header
\* makes for the line after it; when that fgets fails the buffer still
\* holds the header line
SourceFields(it, buf, r2) ==
    SourceAssign(it, buf, Sscanf(IF r2.ok THEN r2.buf ELSE buf, FmtFile))

\* after the loop: finish the item, push_back, return to the track body
PushItem(t, it, opts) == [t EXCEPT !.MediaItems = Append(@, FinishItem(it, opts))]

LoadMediaItem_Line ==
    /\ pc = "item"
    /\ \E r \in {Fgets(content, fp.pos)} :
         /\ r.ok
         /\ IF StartsWith(r.buf, itemFooter)
            THEN /\ track' = PushItem(track, item, project.m_options)
                 /\ item' = NewItem
                 /\ fp' = [fp EXCEPT !.pos = r.pos]
                 /\ pc' = "trackBody"
            ELSE \E f \in {ItemFields(item, r.buf)}, r2 \in {Fgets(content, r.pos)} :
                 /\ item' = SourceFields(f.val, f.buf, r2)
                 /\ fp' = [fp EXCEPT !.pos = IF IsSampleHeader(f.buf) /\ r2.ok
                                              THEN r2.pos ELSE r.pos]
                 /\ UNCHANGED << track, pc >>
    /\ UNCHANGED << inputs, project, master, trackCount, fxLocals, exception,
                    returned >>

LoadMediaItem_Eof ==
    /\ pc = "item"
    /\ ~Fgets(content, fp.pos).ok
    /\ track' = PushItem(track, item, project.m_options)
    /\ item' = NewItem
    /\ pc' = "trackBody"
    /\ UNCHANGED << inputs, fp, project, master, trackCount, fxLocals, exception,
                    returned >>

(***************************************************************************)
(* Parser::LoadFX                                                          *)
(***************************************************************************)
\* the values a read of an indeterminate object can give
TypeChoices(ty) ==
    IF ty = Indeterminate THEN FXTypeValues \cup {Indeterminate} ELSE {ty}

NameChoices(nm) == IF nm = Indeterminate THEN IndeterminateStrings ELSE {nm}

\* the plugin entry a matching header line starts
PluginEntry(name, file, ty) ==
    [NewFX EXCEPT !.Name = name, !.Filepath = file, !.Type = ty]

JsBuild(buf, pos, nameBefore, js, r2) ==
    [fxv  |-> [Name     |-> IF Len(js) >= 1 THEN js[1] ELSE nameBefore,
               Filepath |-> "",
               Type     |-> "JS",
               Data     |-> TrimLeadingSpaces(IF r2.ok THEN r2.buf ELSE buf)],
     name |-> IF Len(js) >= 1 THEN js[1] ELSE nameBefore,
     pos  |-> IF r2.ok THEN r2.pos ELSE pos]

\* the "JesuSonic FX" block for the line in buf, the stream at pos and
\* fxName holding nameBefore: the entry, fxName and the stream after it
JsEntry(buf, pos, nameBefore) ==
    JsBuild(buf, pos, nameBefore, Sscanf(buf, FmtJS), Fgets(content, pos))

\* a defect variant of LeaveFX: control goes back to the scan for tracks
LeaveFXToScan ==
    /\ fx' = NewFX
    /\ buffer' = ""
    /\ fxTypeName' = Indeterminate
    /\ fxName' = Indeterminate
    /\ fxFile' = Indeterminate
    /\ pc' = "tracks"

\* leave LoadFX: its locals go out of scope
LeaveFX ==
    /\ fx' = NewFX
    /\ buffer' = ""
    /\ fxTypeName' = Indeterminate
    /\ fxName' = Indeterminate
    /\ fxFile' = Indeterminate
    /\ pc' = "trackBody"

\* the array an sscanf capture is written to, or left as it was
Captured(h, n, old) == IF Len(h) >= n THEN h[n] ELSE old

\* chain loop: a line that is the chain footer, a plugin header, a script
\* header or none of them
LoadFX_Line ==
    /\ pc = "fx"
    /\ \E r \in {Fgets(content, fp.pos)} :
         /\ r.ok
         /\ IF StartsWith(r.buf, fxChainFooter)
            THEN /\ LeaveFX
                 /\ fp' = [fp EXCEPT !.pos = r.pos]
                 /\ UNCHANGED track
            ELSE \E h \in {Sscanf(r.buf, FmtFX)} :
                 /\ fxTypeName' = Captured(h, 1, fxTypeName)
                 /\ fxFile' = Captured(h, 3, fxFile)
                 /\ IF Len(h) = 3
                    THEN /\ \E ty \in TypeChoices(ClassifyFX(h[1])) :
                               fx' = PluginEntry(h[2], h[3], ty)
                         /\ buffer' = r.buf
                         /\ fxName' = h[2]
                         /\ fp' = [fp EXCEPT !.pos = r.pos]
                         /\ pc' = "fxData"
                         /\ UNCHANGED track
                    ELSE IF StartsWith(r.buf, jsHeader)
                    THEN \E g \in NameChoices(Captured(h, 2, fxName)) :
                         \E js \in {JsEntry(r.buf, r.pos, g)} :
                           /\ track' = [track EXCEPT !.FXChain = Append(@, js.fxv)]
                           /\ fxName' = js.name
                           /\ fp' = [fp EXCEPT !.pos = js.pos]
                           /\ UNCHANGED << fx, buffer, pc >>
                    ELSE /\ fxName' = Captured(h, 2, fxName)
                         /\ fp' = [fp EXCEPT !.pos = r.pos]
                         /\ UNCHANGED << track, fx, buffer, pc >>
    /\ UNCHANGED << inputs, project, master, trackCount, item, exception, returned >>

LoadFX_Eof ==
    /\ pc = "fx"
    /\ ~Fgets(content, fp.pos).ok
    /\ LeaveFX
    /\ UNCHANGED << inputs, fp, project, master, trackCount, track, item,
                    exception, returned >>

\* after the data loop: strip, push_back, then the script test on what the
\* buffer now holds
ClosePlugin(buf, pos) ==
    /\ IF StartsWith(buf, jsHeader)
       THEN \E js \in {JsEntry(buf, pos, fxName)} :
              /\ track' = [track EXCEPT
                             !.FXChain = Append(Append(@, FinishFX(fx)), js.fxv)]
              /\ fxName' = js.name
              /\ fp' = [fp EXCEPT !.pos = js.pos]
       ELSE /\ track' = [track EXCEPT !.FXChain = Append(@, FinishFX(fx))]
            /\ fp' = [fp EXCEPT !.pos = pos]
            /\ UNCHANGED fxName
    /\ fx' = NewFX
    /\ buffer' = ""
    /\ pc' = "fx"
    /\ UNCHANGED << fxTypeName, fxFile >>

\* data loop: a line of the plugin's data, or its footer
LoadFX_Data ==
    /\ pc = "fxData"
    /\ \E r \in {Fgets(content, fp.pos)} :
         /\ r.ok
         /\ IF StartsWith(r.buf, fxFooter)
            THEN ClosePlugin(r.buf, r.pos)
            ELSE /\ fx' = [fx EXCEPT !.Data = @ \o r.buf]
                 /\ buffer' = r.buf
                 /\ fp' = [fp EXCEPT !.pos = r.pos]
                 /\ UNCHANGED << track, fxTypeName, fxName, fxFile, pc >>
    /\ UNCHANGED << inputs, project, master, trackCount, item, exception, returned >>

\* data loop at end of input
LoadFX_DataEof ==
    /\ pc = "fxData"
    /\ ~Fgets(content, fp.pos).ok
    /\ ClosePlugin(buffer, fp.pos)
    /\ UNCHANGED << inputs, project, master, trackCount, item, exception, returned >>

(***************************************************************************)
(* Inputs: the calls of LoadProjectFile the model explores.  A file is a   *)
(* header line followed by lines drawn from the vocabulary of one part of  *)
(* the format.                                                             *)
(***************************************************************************)
RECURSIVE Join(_)
Join(lines) == IF Len(lines) = 0 THEN "" ELSE Head(lines) \o Join(Tail(lines))

\* all sequences of at most n lines over a vocabulary
Bodies(vocabulary, n) == UNION { [1..k -> vocabulary] : k \in 0..n }

AllOptions == [ConvertVolumeToDB : BOOLEAN, NormalizePan : BOOLEAN]

\* both conversions off: volume and pan as they are in the file
RawOptions == [ConvertVolumeToDB |-> FALSE, NormalizePan |-> TRUE]

GoodHeader == "<REAPER_PROJECT 0.1 \"6.12/win64\" 1234\n"

Call(path, opts, exists, bytes) ==
    [path |-> path, opts |-> opts, exists |-> exists, bytes |-> bytes]

\* a path that cannot be opened
MissingInputs ==
    { Call(p, o, FALSE, "") : p \in {"dir/MySong.RPP", "missing.rpp"}, o \in AllOptions }

\* first lines, well formed and not, before an empty or a short body
HeaderTags   == {"<REAPER_PROJECT", "<REAPER_PROJEKT", " <REAPER_PROJECT"}
HeaderNums   == {" 0.1", "", " x"}
HeaderTokens == {" \"6.12/win64\"", " \"6.12/win64", " \"6.12/\"", " \"6/win64\"",
                 " 6.12/win64", " \"7.0/OSX64\"", " \"012.08/linux\"",
                 " \"6.08/win64\""}
HeaderTrails == {" 1234", "", " abc"}
HeaderBodies == {"", "  TEMPO 120 4 4\n  SAMPLERATE 44100 0 0\n"}

HeaderInputs ==
    { Call("C:\\proj\\My.Song.rpp", DefaultOptions, TRUE, a \o b \o c \o d \o "\n" \o e) :
        a \in HeaderTags, b \in HeaderNums, c \in HeaderTokens, d \in HeaderTrails,
        e \in HeaderBodies }

\* master and track lines
TrackLines ==
    { "  MASTER_NCH 2 2\n",
      "  MASTER_VOLUME 10 0.5 -1 -1 1\n",
      "  <TRACK {0}\n",
      "  <TRACK {A}\n",
      "    NAME MASTER\n",
      "    VOLPAN 0.1 -1 -1 -1 1\n",
      "  >\n" }

TrackInputs ==
    { Call("dir/MySong.RPP", DefaultOptions, TRUE, GoodHeader \o Join(b)) :
        b \in Bodies(TrackLines, MaxBody) }

\* the lines of an item block, after a track-open and an item-open line
ItemLines ==
    { "      POSITION 1.5\n",
      "      LENGTH 2\n",
      "      VOLPAN 10 -1 1 -1\n",
      "      END 9\n",
      "      <SOURCE WAVE\n",
      "        FILE \"a.wav\"\n",
      "    >\n",
      "  >\n" }

ItemInputs ==
    { Call("song.rpp", o, TRUE,
           GoodHeader \o "  <TRACK {A}\n" \o "    <ITEM\n" \o Join(b)) :
        o \in {DefaultOptions, RawOptions}, b \in Bodies(ItemLines, MaxBody) }

\* the lines of an FX chain, after a track-open and a chain-open line
FXLines ==
    { "      <VST \"VST3i: Synth1\" Synth1.dll 0 \"\" 1<00> \"\"\n",
      "      <DX \"DX: Old\" old.dll 0 \"\" 3<00> \"\"\n",
      "      <JS utility/volume \"\"\n",
      "      <JS \n",
      "        ZGF0 YQ==\n",
      "      >\n",
      "    >\n",
      "  >\n" }

FXInputs ==
    { Call("song.rpp", DefaultOptions, TRUE,
           GoodHeader \o "  <TRACK {A}\n" \o "    <FXCHAIN\n" \o Join(b)) :
        b \in Bodies(FXLines, MaxBody) }

\* one plugin entry of each typename, closed or cut off by the end of input
PluginTypeNames == {"VST", "VST3", "VSTi", "VST3i", "AU", "AUi"}

PluginInputs ==
    { Call("song.rpp", DefaultOptions, TRUE,
           GoodHeader \o "  <TRACK {A}\n" \o "    <FXCHAIN\n"
             \o "      <X \"" \o tn \o ": Name\" file.dll 0 \"\" 1<00> \"\"\n" \o tail) :
        tn \in PluginTypeNames, tail \in {"", "      >\n    >\n  >\n"} }

\* under every setting of the options: a file with one master section, one
\* track and one item that all carry a volume and a pan, and files with no
\* master section
NormalizerInputs ==
    { Call("song.rpp", o, TRUE, GoodHeader \o b) :
        o \in AllOptions,
        b \in { "  MASTER_VOLUME 10 0.5 -1 -1 1\n" \o "  <TRACK {A}\n"
                  \o "    VOLPAN 0.1 -1 -1 -1 1\n" \o "    <ITEM\n"
                  \o "      VOLPAN 10 -1 1 -1\n" \o "    >\n" \o "  >\n",
                "  <TRACK {A}\n" \o "    VOLPAN 0.1 -1 -1 -1 1\n" \o "  >\n",
                "" } }

\* source headers and FILE lines in any order inside one item block
SourceInputs ==
    { Call("song.rpp", DefaultOptions, TRUE,
           GoodHeader \o "  <TRACK {A}\n" \o "    <ITEM\n" \o Join(b)) :
        b \in Bodies({ "      <SOURCE WAVE\n", "        FILE \"a.wav\"\n",
                       "      <SOURCE MIDI\n", "    >\n" }, MaxBody) }

\* field lines at another indentation than the stage's patterns are
\* written with
IndentInputs ==
    { Call("song.rpp", RawOptions, TRUE, GoodHeader \o Join(b)) :
        b \in Bodies({ "SAMPLERATE 48000 0 0\n", "  <TRACK {A}\n",
                       "  VOLPAN 0.5 0.25 -1 -1 1\n", "    <ITEM\n",
                       "POSITION 2\n" }, MaxBody) }

\* an empty FX chain in a track, then more of the track
ChainInputs ==
    { Call("song.rpp", RawOptions, TRUE,
           GoodHeader \o "  <TRACK {A}\n" \o "    <FXCHAIN\n" \o "    >\n" \o Join(b)) :
        b \in Bodies({ "    VOLPAN 0.5 0.25 -1 -1 1\n", "    NAME Bass\n", "  >\n",
                       "  <TRACK {B}\n" }, MaxBody) }

\* NAME lines whose name reads like another line of the format
NameInputs ==
    { Call("song.rpp", RawOptions, TRUE, GoodHeader \o "  <TRACK {A}\n" \o Join(b)) :
        b \in Bodies({ "    NAME \"VOLPAN 0.5 0.25\"\n", "    NAME \"    <ITEM\"\n",
                       "    NAME Bass\n", "    <ITEM\n",
                       "      NAME \"      <SOURCE MIDI\"\n", "  >\n" }, MaxBody) }

\* field lines that carry fewer values than their pattern converts
PartialInputs ==
    { Call("song.rpp", RawOptions, TRUE, GoodHeader \o Join(b)) :
        b \in Bodies({ "  TEMPO 90\n", "  MASTER_VOLUME 0.5\n", "  <TRACK {A}\n",
                       "    VOLPAN 0.5\n" }, MaxBody) }

RECURSIVE Rep(_, _)
\* n times the string c
Rep(c, n) ==
    IF n = 0 THEN ""
    ELSE IF n % 2 = 1 THEN c \o Rep(c, n - 1)
    ELSE Rep(c \o c, n \div 2)

\* a line of exactly ReaBuffer_Max - 1 characters with its newline, and a
\* longer one whose last characters read like a track-open line
LongLineInputs ==
    { Call("song.rpp", DefaultOptions, TRUE, GoodHeader \o b \o "  >\n") :
        b \in { Rep("x", ReaBuffer_Max - 2) \o "\n" \o "  <TRACK {A}\n",
                Rep("x", ReaBuffer_Max - 1) \o "  <TRACK {X}\n" } }

Inputs ==
    MissingInputs \cup HeaderInputs \cup TrackInputs \cup ItemInputs
      \cup FXInputs \cup PluginInputs \cup NormalizerInputs \cup SourceInputs
      \cup IndentInputs \cup ChainInputs \cup NameInputs \cup PartialInputs
      \cup LongLineInputs

(***************************************************************************)
(* The specification.                                                      *)
(***************************************************************************)
Init ==
    /\ \E c \in Inputs :
         /\ filepath = c.path
         /\ options = c.opts
         /\ fileExists = c.exists
         /\ content = c.bytes
    /\ pc = "start"
    /\ fp = [open |-> FALSE, pos |-> 0]
    /\ project = NewProject
    /\ master = NewTrack
    /\ trackCount = 0
    /\ track = NewTrack
    /\ item = NewItem
    /\ fx = NewFX
    /\ buffer = ""
    /\ fxTypeName = Indeterminate
    /\ fxName = Indeterminate
    /\ fxFile = Indeterminate
    /\ exception = NoException
    /\ returned = NewProject

Next ==
    \/ Open
    \/ LoadMetadata
    \/ LoadProperties_Line
    \/ LoadProperties_Eof
    \/ LoadMasterTrack_Line
    \/ LoadMasterTrack_Eof
    \/ LoadTracks_Scan
    \/ LoadTracks_Eof
    \/ LoadTracks_Body
    \/ LoadTracks_BodyEof
    \/ LoadMediaItem_Line
    \/ LoadMediaItem_Eof
    \/ LoadFX_Line
    \/ LoadFX_Eof
    \/ LoadFX_Data
    \/ LoadFX_DataEof

Spec == Init /\ [][Next]_vars

(***************************************************************************)
(* Properties of LoadProjectFile.                                          *)
(***************************************************************************)
Last(seq) == seq[Len(seq)]

\* whether sub occurs in s
Contains(s, sub) ==
    \E i \in 1..(Len(s) - Len(sub) + 1) : SubSeq(s, i, i + Len(sub) - 1) = sub

EndsWith(s, suffix) ==
    /\ Len(s) >= Len(suffix)
    /\ SubSeq(s, Len(s) - Len(suffix) + 1, Len(s)) = suffix

\* the first line of the file
FirstLine == Fgets(content, 0).buf

\* the stages after the master track has been pushed
AfterMaster == pc \in {"tracks", "trackBody", "item", "fx", "fxData", "done"}

\* a track is being read
InTrack == pc \in {"trackBody", "item", "fx", "fxData"}

\* the stages after the header has been accepted
PostHeader ==
    pc \in {"properties", "master", "tracks", "trackBody", "item", "fx", "fxData", "done"}

\* the entry the master routine makes
IsMasterEntry(t) == t.GUID = "0" /\ t.Name = "MASTER" /\ t.NumericID = 0

MasterEntries(tracks) == { k \in 1..Len(tracks) : IsMasterEntry(tracks[k]) }

\* C1: once the master routine has run, and in every project LoadProjectFile
\* returns, Tracks[0] is the master track (GUID "0", name "MASTER",
\* NumericID 0) and it is the only such entry of the track sequence,
\* whatever lines the file holds.
C1_MasterFirstAndOnly ==
    /\ AfterMaster =>
         /\ Len(project.Tracks) >= 1
         /\ IsMasterEntry(project.Tracks[1])
         /\ MasterEntries(project.Tracks) = {1}
    /\ pc = "done" =>
         /\ Len(returned.Tracks) >= 1
         /\ IsMasterEntry(returned.Tracks[1])
         /\ MasterEntries(returned.Tracks) = {1}

\* C1, its case: a returned project whose file has a MASTER_NCH line and a
\* track that itself carries GUID "0" and the name MASTER.
C1_Witness ==
    /\ pc = "done"
    /\ returned.Tracks[1].Channels = 2
    /\ \E k \in 2..Len(returned.Tracks) :
         returned.Tracks[k].GUID = "0" /\ returned.Tracks[k].Name = "MASTER"

\* C2: the tracks after the master carry NumericID 1, 2, ..., n in the
\* order they were opened: every entry's NumericID is its index, the track
\* being read carries the index it will be pushed at, and trackCount counts
\* the tracks opened so far; the GUIDs play no part.
C2_NumericIDsInOrder ==
    AfterMaster =>
      /\ \A k \in 1..Len(project.Tracks) : project.Tracks[k].NumericID = k - 1
      /\ InTrack => /\ track.NumericID = Len(project.Tracks)
                    /\ trackCount = Len(project.Tracks)
      /\ ~InTrack => trackCount = Len(project.Tracks) - 1
      /\ pc = "done" => returned.Tracks = project.Tracks

\* C2, its case: a returned project with two tracks of the same GUID after
\* the master.
C2_Witness ==
    /\ pc = "done"
    /\ Len(returned.Tracks) = 3
    /\ returned.Tracks[2].GUID = returned.Tracks[3].GUID
    /\ returned.Tracks[2].NumericID = 1
    /\ returned.Tracks[3].NumericID = 2

\* C3: the valid flag is set only when the metadata, property and track
\* stages have all run to their end (the stream is closed again, the master
\* entry is there, nothing was thrown), and after a failed load the caller
\* holds no project with the flag set.
C3_ValidOnlyWhenComplete ==
    /\ (project.m_valid \/ returned.m_valid) =>
         /\ pc = "done"
         /\ exception = NoException
         /\ ~fp.open
         /\ Len(project.Tracks) >= 1
         /\ fp.pos = Len(content)
    /\ pc = "failed" => /\ ~returned.m_valid
                        /\ returned = NewProject
                        /\ exception # NoException

\* C3, its case: a load that failed on the header after the version fields
\* of its local project had already been written.
C3_Witness ==
    /\ pc = "failed"
    /\ fileExists
    /\ project.Version.Major = 6
    /\ ~returned.m_valid

FmtHeaderFourFields ==
    << Lit("<REAPER_PROJECT"), WS, ConvF, WS, Lit("\""), ConvI, Lit("."), ConvI,
       Lit("/"), SetNot("\""), Lit("\""), WS, ConvI >>

HasFourHeaderFields(line) == Len(Sscanf(line, FmtHeaderFourFields)) = 5

\* C5: every file that opens and whose first line does not have all four
\* header fields in order fails with the "Invalid" message and leaves the
\* caller without a project.
C5_EveryShortHeaderRejected ==
    (fileExists /\ pc \notin {"start", "metadata"} /\ ~HasFourHeaderFields(FirstLine)) =>
      /\ pc = "failed"
      /\ exception = BadFile(InvalidWhat(filepath))
      /\ returned = NewProject

\* C5, its case: a project returned as valid from a file whose first line
\* has no trailing numeric field.
C5_Witness ==
    /\ pc = "done"
    /\ returned.m_valid
    /\ ~HasFourHeaderFields(FirstLine)
    /\ EndsWith(FirstLine, "\"\n")

\* C6: once the file is open and its header accepted, nothing that follows
\* makes the load fail: a load of a file that opened fails only when the
\* header is not accepted; in every stage after the header no exception
\* is thrown, and when the load is done the project returned is valid.
C6_NothingFatalAfterHeader ==
    /\ (fileExists /\ pc = "failed") => ~HeaderAccepted(Sscanf(content, FmtHeader))
    /\ PostHeader =>
         /\ fileExists
         /\ exception = NoException
         /\ pc = "done" => returned.m_valid /\ returned = project

\* C6, its case: a valid project returned from a file that ends inside a
\* plugin entry whose typename matches no prefix.
C6_Witness ==
    /\ pc = "done"
    /\ returned.m_valid
    /\ EndsWith(content, "      <DX \"DX: Old\" old.dll 0 \"\" 3<00> \"\"\n")
    /\ Len(returned.Tracks) = 2
    /\ Len(returned.Tracks[2].FXChain) >= 1

\* every media item pushed so far
AllItems ==
    UNION { { t.MediaItems[k] : k \in 1..Len(t.MediaItems) } :
              t \in { project.Tracks[k] : k \in 1..Len(project.Tracks) } \cup {track} }

\* C7: every media item has End = Start + Length, Start and Length being
\* what the item routine held from the POSITION and LENGTH lines when it
\* pushed the item; while an item is read its End stays as constructed, so
\* no line sets it.
C7_EndIsStartPlusLength ==
    /\ [](\A it \in AllItems : it.End = it.Start + it.Length)
    /\ [](pc = "item" => item.End = 0)
    /\ [][(pc = "item" /\ pc' = "trackBody") =>
            /\ Len(track'.MediaItems) = Len(track.MediaItems) + 1
            /\ Last(track'.MediaItems).Start = item.Start
            /\ Last(track'.MediaItems).Length = item.Length
            /\ Last(track'.MediaItems).End = item.Start + item.Length]_vars

\* C7, its case: a returned item read from POSITION 1.5, LENGTH 2 and a
\* line END 9.
C7_Witness ==
    /\ pc = "done"
    /\ Contains(content, "      END 9\n")
    /\ \E it \in AllItems : it.Start = 1500 /\ it.Length = 2000 /\ it.End = 3500

\* the type C8 gives a typename: the longest of the six prefixes it starts
\* with
LongestPrefixType(typeName) ==
    IF StartsWith(typeName, "VST3i") THEN "VST3i"
    ELSE IF StartsWith(typeName, "VST3") THEN "VST3"
    ELSE IF StartsWith(typeName, "VSTi") THEN "VSTi"
    ELSE IF StartsWith(typeName, "VST") THEN "VST"
    ELSE IF StartsWith(typeName, "AUi") THEN "AUi"
    ELSE IF StartsWith(typeName, "AU") THEN "AU"
    ELSE "none"

\* C8: a plugin entry whose typename starts with one of the six prefixes
\* has the type of the longest prefix it starts with.
C8_LongestPrefixDecides ==
    (pc = "fxData" /\ LongestPrefixType(fxTypeName) # "none") =>
      fx.Type = LongestPrefixType(fxTypeName)

\* C8, its case: the entry of the line <VST "VST3i: Synth1" Synth1.dll ...
\* is being read and its type is VST.
C8_Witness ==
    /\ pc = "fxData"
    /\ fxTypeName = "VST3i"
    /\ fxName = "Synth1"
    /\ fx.Filepath = "Synth1.dll"
    /\ fx.Type = "VST"

\* the file has no MASTER_NCH and no MASTER_VOLUME line
NoMasterLines == ~Contains(content, "MASTER_NCH") /\ ~Contains(content, "MASTER_VOLUME")

\* C9 as stated: with no MASTER_NCH and no MASTER_VOLUME line the master of
\* the returned project has Channels, Volume and Pan all zero, under every
\* setting of the options.
C9_MasterAllZero ==
    (pc = "done" /\ NoMasterLines) =>
      /\ returned.Tracks[1].Channels = 0
      /\ returned.Tracks[1].Volume = Fin(0)
      /\ returned.Tracks[1].Pan = 0

\* C9, amended: with no MASTER_NCH and no MASTER_VOLUME line the master of
\* the returned project has Channels and Pan zero under every setting of
\* the options; its Volume is zero when ConvertVolumeToDB is off and
\* -infinity, the decibel value of amplitude zero, when it is on.
C9_MasterZeroOrSilent ==
    (pc = "done" /\ NoMasterLines) =>
      /\ returned.Tracks[1].Channels = 0
      /\ returned.Tracks[1].Pan = 0
      /\ returned.Tracks[1].Volume = IF options.ConvertVolumeToDB THEN NegInf ELSE Fin(0)

\* C9, its case: a project returned under the default options from a file
\* with tracks and no master line.
C9_Witness ==
    /\ pc = "done"
    /\ NoMasterLines
    /\ options = DefaultOptions
    /\ Len(returned.Tracks) >= 2
    /\ returned.Tracks[1].Volume = NegInf

\* what C10 asks of an entity pushed with volume outV and pan outP when the
\* routine held rawV and rawP from the source
Normalized(rawV, rawP, outV, outP) ==
    /\ ~options.ConvertVolumeToDB => outV = rawV
    /\ options.ConvertVolumeToDB => outV = ToDecibel(rawV[2])
    /\ options.NormalizePan => outP = rawP
    /\ ~options.NormalizePan => outP = rawP * 100

\* C10: the master, every track and every item are pushed with the same
\* function of the values read and the options: Volume is the raw value
\* when ConvertVolumeToDB is off and its decibel value when it is on,
\* whatever NormalizePan is; Pan is the raw value when NormalizePan is on
\* and 100 times it when it is off, whatever ConvertVolumeToDB is.
C10_NormalizerUniform ==
    [][/\ (pc = "master" /\ pc' = "tracks") =>
            Normalized(master.Volume, master.Pan,
                       Last(project'.Tracks).Volume, Last(project'.Tracks).Pan)
       /\ (pc = "trackBody" /\ pc' = "tracks") =>
            Normalized(track.Volume, track.Pan,
                       Last(project'.Tracks).Volume, Last(project'.Tracks).Pan)
       /\ (pc = "item" /\ pc' = "trackBody") =>
            Normalized(item.Volume, item.Pan,
                       Last(track'.MediaItems).Volume, Last(track'.MediaItems).Pan)]_vars

\* C10, its case: with both flags off, a master read from volume 10 pan
\* 0.5, a track from volume 0.1 pan -1 and an item from volume 10 pan -1.
C10_Witness ==
    /\ pc = "done"
    /\ ~options.ConvertVolumeToDB
    /\ ~options.NormalizePan
    /\ Len(returned.Tracks) = 2
    /\ returned.Tracks[1].Volume = Fin(10000)
    /\ returned.Tracks[1].Pan = 50000
    /\ returned.Tracks[2].Volume = Fin(100)
    /\ returned.Tracks[2].Pan = -100000
    /\ Len(returned.Tracks[2].MediaItems) = 1
    /\ returned.Tracks[2].MediaItems[1].Volume = Fin(10000)
    /\ returned.Tracks[2].MediaItems[1].Pan = -100000

\* C11: in every project, being read or returned, a media item with a
\* non-empty Filepath has Type Sample, whatever source headers its block
\* holds and in whatever order.
C11_FilepathOnlyOnSamples ==
    \A it \in AllItems : it.Filepath # "" => it.Type = "Sample"

\* C11, its case: a returned item of Type Midi with Filepath a.wav, from a
\* block with a WAVE source and its FILE line followed by a MIDI source.
C11_Witness ==
    /\ pc = "done"
    /\ Contains(content, "      <SOURCE WAVE\n        FILE \"a.wav\"\n      <SOURCE MIDI\n")
    /\ \E it \in AllItems : it.Type = "Midi" /\ it.Filepath = "a.wav"

\* the file has a line that starts with prefix
HasLineStarting(prefix) == StartsWith(content, prefix) \/ Contains(content, "\n" \o prefix)

\* C12: a field keyword is applied only at its stage's indentation: a file
\* with no line starting with "  SAMPLERATE" leaves SampleRate 0, one with no
\* line starting with "    VOLPAN" leaves every track's volume and pan 0,
\* and one with no line starting with "      POSITION" leaves every item's
\* Start 0 (the loads here apply no option to volume and pan).
C12_IndentationDecides ==
    (pc = "done" /\ options = RawOptions) =>
      /\ ~HasLineStarting("  SAMPLERATE") => returned.SampleRate = 0
      /\ ~HasLineStarting("    VOLPAN") =>
           \A k \in 2..Len(returned.Tracks) :
             returned.Tracks[k].Volume = Fin(0) /\ returned.Tracks[k].Pan = 0
      /\ ~HasLineStarting("      POSITION") => \A it \in AllItems : it.Start = 0

\* C12, its case: a returned project whose SampleRate, track volume and
\* item Start come from lines with no or too little indentation.
C12_Witness ==
    /\ pc = "done"
    /\ ~HasLineStarting("  SAMPLERATE")
    /\ ~HasLineStarting("    VOLPAN")
    /\ ~HasLineStarting("      POSITION")
    /\ \/ returned.SampleRate = 48000
       \/ \E k \in 2..Len(returned.Tracks) : returned.Tracks[k].Volume = Fin(500)
       \/ \E it \in AllItems : it.Start = 2000

\* a first line of the form <REAPER_PROJECT n "<major>.<minor>/<code>" m
\* read with major and minor as decimal digit strings: whether the line
\* has that form, and the values
DecimalHeader(line) ==
    LET n   == ConvFloat(line, Len("<REAPER_PROJECT") + 1)
        q   == SkipSpace(line, n.pos)
        mj  == SpanDigits(line, q + 1)
        mn  == SpanDigits(line, mj + 1)
        ce  == SpanNot(line, mn + 1, "\"")
        t   == SkipSpace(line, ce + 1)
    IN  [ok    |-> /\ StartsWith(line, "<REAPER_PROJECT")
                   /\ n.ok
                   /\ Ch(line, q) = "\""
                   /\ mj > q + 1 /\ Ch(line, mj) = "."
                   /\ mn > mj + 1 /\ Ch(line, mn) = "/"
                   /\ ce > mn + 1 /\ Ch(line, ce) = "\""
                   /\ SpanDigits(line, t) > t,
         major |-> NumValue(line, q + 1, mj, 10),
         minor |-> NumValue(line, mj + 1, mn, 10),
         code  |-> SubSeq(line, mn + 1, ce - 1)]

\* the platform C13 gives a code
PlatformFor(code) ==
    IF code \in {"win64", "win32"} THEN "Windows"
    ELSE IF code \in {"OSX64", "OSX32"} THEN "OSX"
    ELSE "Undefined"

\* C13: every file whose first line has the form <REAPER_PROJECT n
\* "<major>.<minor>/<code>" m with decimal major and minor is accepted, and
\* its Version holds the decimal values of major and minor and the platform
\* of the code: Windows, OSX, or Undefined for any other code.
C13_DecimalVersionAccepted ==
    (fileExists /\ pc \notin {"start", "metadata"} /\ DecimalHeader(FirstLine).ok) =>
      /\ pc # "failed"
      /\ project.Version.Major = DecimalHeader(FirstLine).major
      /\ project.Version.Minor = DecimalHeader(FirstLine).minor
      /\ project.Version.Platform = PlatformFor(DecimalHeader(FirstLine).code)

\* C13, its case: the load of a file whose first line is
\* <REAPER_PROJECT 0.1 "6.08/win64" 1234 has failed.
C13_Witness ==
    /\ pc = "failed"
    /\ FirstLine = "<REAPER_PROJECT 0.1 \"6.08/win64\" 1234\n"
    /\ DecimalHeader(FirstLine).ok
    /\ DecimalHeader(FirstLine).minor = 8
    /\ exception = BadFile(InvalidWhat(filepath))

\* the line the chain loop reads next
NextLine == Fgets(content, fp.pos)

\* the types the plugin entry can get that the next line of the chain opens
OpenedTypes ==
    IF NextLine.ok /\ ~StartsWith(NextLine.buf, fxChainFooter)
         /\ Len(Sscanf(NextLine.buf, FmtFX)) = 3
    THEN TypeChoices(ClassifyFX(Sscanf(NextLine.buf, FmtFX)[1]))
    ELSE {}

\* the names the script entry can get that the next line of the chain
\* appends
AppendedNames ==
    IF NextLine.ok /\ ~StartsWith(NextLine.buf, fxChainFooter)
         /\ Len(Sscanf(NextLine.buf, FmtFX)) # 3 /\ StartsWith(NextLine.buf, jsHeader)
    THEN IF Len(Sscanf(NextLine.buf, FmtJS)) >= 1
         THEN {Sscanf(NextLine.buf, FmtJS)[1]}
         ELSE NameChoices(Captured(Sscanf(NextLine.buf, FmtFX), 2, fxName))
    ELSE {}

\* C14: the file and the options determine the project: wherever the load
\* is in an FX chain, the line it reads next leaves one outcome only for
\* the type of the plugin entry it opens and for the name of the script
\* entry it appends, so that two loads of one file cannot differ.
C14_OneOutcomePerLine ==
    pc = "fx" => Cardinality(OpenedTypes) <= 1 /\ Cardinality(AppendedNames) <= 1

\* C14, its case: the plugin entry of a header line whose typename matches
\* no prefix is being read, and this load has given it the type JS.
C14_Witness ==
    /\ pc = "fxData"
    /\ fxTypeName = "DX"
    /\ fx.Name = "Old"
    /\ fx.Type = "JS"

\* the bytes read so far
Consumed == SubSeq(content, 1, fp.pos)

\* the chain loop has read nothing but the chain-open line, and the line
\* after it is a chain-close line
AtEmptyChain ==
    /\ pc = "fx"
    /\ EndsWith(Consumed, "\n    <FXCHAIN\n")
    /\ NextLine.ok
    /\ StartsWith(NextLine.buf, fxChainFooter)

\* a file that opens a track with an empty chain and goes on with a VOLPAN
\* line
EmptyChainThenVolpan ==
    StartsWith(content, GoodHeader \o "  <TRACK {A}\n" \o "    <FXCHAIN\n" \o "    >\n"
                          \o "    VOLPAN 0.5 0.25 -1 -1 1\n")

\* C15: a chain-close line right after the chain-open line takes the load
\* back to the track body with the stream after the close line, the track
\* as it was (nothing appended to its FX sequence) and no exception; the
\* track's next lines are then read as track lines: a VOLPAN line after the
\* empty chain sets the track's volume and pan, and the track is pushed
\* with an empty FX sequence.
C15_EmptyChainReturns ==
    /\ [][AtEmptyChain =>
            /\ pc' = "trackBody"
            /\ track' = track
            /\ fp' = [fp EXCEPT !.pos = NextLine.pos]
            /\ exception' = NoException]_vars
    /\ []((EmptyChainThenVolpan /\ pc = "done" /\ options = RawOptions) =>
            /\ returned.Tracks[2].FXChain = <<>>
            /\ returned.Tracks[2].Volume = Fin(500)
            /\ returned.Tracks[2].Pan = 250)

\* C15, its case: a returned project from a file with an empty chain, a
\* VOLPAN line, the track-close line and a second track-open line.
C15_Witness ==
    /\ pc = "done"
    /\ EmptyChainThenVolpan
    /\ Contains(content, "    VOLPAN 0.5 0.25 -1 -1 1\n  >\n  <TRACK {B}\n")
    /\ Len(returned.Tracks) = 3
    /\ returned.Tracks[2].FXChain = <<>>
    /\ returned.Tracks[2].Volume = Fin(500)
    /\ returned.Tracks[3].GUID = "B"

\* the bytes a step reads
ReadInStep == SubSeq(content, fp.pos + 1, fp'.pos)

\* chunk holds a line that starts with marker
HoldsLine(chunk, marker) == StartsWith(chunk, marker) \/ Contains(chunk, "\n" \o marker)

\* C16: the item routine never reads past its close line: a step of its
\* loop that reads an item-close line reads that line only and returns to
\* the track body with the stream just after it.
C16_ItemStopsAtClose ==
    [][(pc = "item" /\ HoldsLine(ReadInStep, itemFooter)) =>
         /\ StartsWith(NextLine.buf, itemFooter)
         /\ fp'.pos = NextLine.pos
         /\ pc' = "trackBody"]_vars

\* C16, its case: the item routine is still reading its block after it has
\* read a WAVE source header and the item-close line behind it.
C16_Witness ==
    /\ pc = "item"
    /\ EndsWith(Consumed, "    <ITEM\n      <SOURCE WAVE\n    >\n")

\* C17: the chain routine never reads past the chain-close line: a step of
\* its loops that reads a chain-close line reads that line only and
\* returns to the track body with the stream just after it.
C17_ChainStopsAtClose ==
    [][(pc \in {"fx", "fxData"} /\ HoldsLine(ReadInStep, fxChainFooter)) =>
         /\ StartsWith(NextLine.buf, fxChainFooter)
         /\ fp'.pos = NextLine.pos
         /\ pc' = "trackBody"]_vars

\* C17, its case: the chain routine is still reading the chain after it has
\* read a script header and the chain-close line behind it, which it took
\* as the script's data.
C17_Witness ==
    /\ pc = "fx"
    /\ EndsWith(Consumed, "    <FXCHAIN\n      <JS utility/volume \"\"\n    >\n")
    /\ Len(track.FXChain) = 1
    /\ track.FXChain[1].Type = "JS"
    /\ track.FXChain[1].Data = ">\n"

\* C18: a NAME line changes the name only: the step that reads a track's
\* NAME line leaves every other attribute of the track as it was and stays
\* in the track body, and the step that reads an item's NAME line leaves
\* every other attribute of the item as it was and stays in the item.
C18_NameLineSetsNameOnly ==
    [][/\ (pc = "trackBody" /\ NextLine.ok /\ StartsWith(NextLine.buf, "    NAME ")) =>
            /\ track' = [track EXCEPT !.Name = track'.Name]
            /\ pc' = "trackBody"
       /\ (pc = "item" /\ NextLine.ok /\ StartsWith(NextLine.buf, "      NAME ")) =>
            /\ item' = [item EXCEPT !.Name = item'.Name]
            /\ pc' = "item"]_vars

\* C18, its case: the track body has read the line NAME "VOLPAN 0.5 0.25"
\* and the track has that name and volume 0.5, pan 0.25.
C18_Witness ==
    /\ pc = "trackBody"
    /\ EndsWith(Consumed, "  <TRACK {A}\n    NAME \"VOLPAN 0.5 0.25\"\n")
    /\ track.Name = "VOLPAN 0.5 0.25"
    /\ track.Volume = Fin(500)
    /\ track.Pan = 250

\* the next line starts with keyword and converts fewer than n values of
\* the pattern fmt
ShortOf(keyword, fmt, n) ==
    /\ NextLine.ok
    /\ StartsWith(NextLine.buf, keyword)
    /\ Len(Sscanf(NextLine.buf, fmt)) < n

\* C19: a line that converts fewer values than its pattern has leaves all
\* attributes of the pattern as they were: a short TEMPO line changes none
\* of BPM, Beats, Bars, and a short MASTER_VOLUME or VOLPAN line changes
\* neither Volume nor Pan.
C19_NoPartialUpdate ==
    [][/\ (pc = "properties" /\ ShortOf("  TEMPO ", FmtTempo, 3)) =>
            project'.Tempo = project.Tempo
       /\ (pc = "master" /\ ShortOf("  MASTER_VOLUME ", FmtMasterVolume, 2)) =>
            master'.Volume = master.Volume /\ master'.Pan = master.Pan
       /\ (pc = "trackBody" /\ ShortOf("    VOLPAN ", FmtTrackVolPan, 2)) =>
            track'.Volume = track.Volume /\ track'.Pan = track.Pan]_vars

\* C19, its case: the property stage has read the line TEMPO 90 and BPM is
\* 90 while Beats and Bars are as before.
C19_Witness ==
    /\ pc = "properties"
    /\ Consumed = GoodHeader \o "  TEMPO 90\n"
    /\ project.Tempo = [BPM |-> 90000, Beats |-> 0, Bars |-> 0]

\* C20: a plugin entry whose typename starts with none of the six prefixes
\* has the type Undefined.
C20_UnknownPrefixUndefined ==
    (pc = "fxData" /\ LongestPrefixType(fxTypeName) = "none") => fx.Type = "Undefined"

\* C20, its case: the entry of the line <DX "DX: Old" old.dll ... is being
\* read and its type is AUi.
C20_Witness ==
    /\ pc = "fxData"
    /\ fxTypeName = "DX"
    /\ fx.Filepath = "old.dll"
    /\ fx.Type = "AUi"

\* C21: the rest of an over-long line is never delivered as a line: while
\* the stream is open it stands at the start of the file, just after a
\* newline, or at the end of the file, so every line read starts where a
\* line of the file starts.
C21_ReadsStartAtLineStarts ==
    fp.open => \/ fp.pos = 0
               \/ fp.pos = Len(content)
               \/ Ch(content, fp.pos) = "\n"

\* C21, its case: a project returned from a file whose second line is
\* ReaBuffer_Max - 1 characters x followed by "  <TRACK {X}", with a track
\* of GUID X.
C21_Witness ==
    /\ pc = "done"
    /\ StartsWith(content, GoodHeader \o "xxxx")
    /\ Len(content) > Len(GoodHeader) + ReaBuffer_Max
    /\ Len(returned.Tracks) = 2
    /\ returned.Tracks[2].GUID = "X"

\* C22: once LoadProjectFile is left, with a project returned or with a
\* failure raised, the handle it opened is closed.
C22_HandleClosedOnExit ==
    pc \in {"done", "failed"} => ~fp.open

\* C22, its case: the file was opened, its header was rejected and
\* LoadProjectFile was left with the InvalidFormat failure while the handle
\* is still open.
C22_Witness ==
    /\ pc = "failed"
    /\ fileExists
    /\ exception = BadFile(InvalidWhat(filepath))
    /\ fp.open

\* the order of the passes over the file; the track pass holds the nested
\* loops
StageRank(p) ==
    CASE p = "start"      -> 0
      [] p = "metadata"   -> 1
      [] p = "properties" -> 2
      [] p = "master"     -> 3
      [] p \in {"tracks", "trackBody", "item", "fx", "fxData"} -> 4
      [] OTHER            -> 5

\* how many loops of the track pass are open
LoopDepth(p) ==
    CASE p = "trackBody"     -> 1
      [] p \in {"item", "fx"} -> 2
      [] p = "fxData"        -> 3
      [] OTHER               -> 0

\* the close marker of the nested loop at p
CloseMarker(p) ==
    CASE p = "trackBody" -> trackFooter
      [] p = "item"      -> itemFooter
      [] p = "fx"        -> fxChainFooter
      [] OTHER           -> fxFooter

\* C23: the load terminates, every step taking it nearer to its end: the
\* passes follow each other in one order and none is entered twice; a step
\* inside a pass reads forward, or finds the end of input and leaves a
\* nested loop; the stream is rewound by the three steps that end the
\* metadata, the properties and the master pass and by no step inside a
\* pass; and a nested loop is left only on a line that starts with its
\* close marker or at the end of input.
C23_EveryStepNearerToEnd ==
    [][/\ StageRank(pc') >= StageRank(pc)
       /\ StageRank(pc') = StageRank(pc) =>
            \/ fp'.pos > fp.pos
            \/ fp'.pos = fp.pos /\ fp.pos = Len(content)
                 /\ LoopDepth(pc') < LoopDepth(pc)
       /\ (pc \in {"metadata", "properties", "master"}
             /\ StageRank(pc') = StageRank(pc) + 1) => fp'.pos = 0
       /\ fp'.pos < fp.pos =>
            pc \in {"properties", "master"} /\ StageRank(pc') = StageRank(pc) + 1
       /\ LoopDepth(pc') < LoopDepth(pc) =>
            \/ StartsWith(ReadInStep, CloseMarker(pc))
            \/ fp'.pos = fp.pos /\ fp.pos = Len(content)
       /\ pc' = "done" => pc = "tracks" /\ fp.pos = Len(content)
      ]_vars

\* C23, its case: a load that has returned from a file whose track, chain
\* and plugin entry have no close line, so that the data loop, the chain
\* loop, the track body and the outer loop were all ended by the end of
\* input.
C23_Witness ==
    /\ pc = "done"
    /\ HasLineStarting("      <X")
    /\ ~HasLineStarting(trackFooter)
    /\ ~HasLineStarting(fxChainFooter)
    /\ Len(returned.Tracks) = 2
    /\ Len(returned.Tracks[2].FXChain) = 1
    /\ fp.pos = Len(content)

\* 1 while a track has been opened and not yet pushed
OpenTracks(p) == IF p \in {"trackBody", "item", "fx", "fxData"} THEN 1 ELSE 0

\* the step reads a track-open line in the outer loop of LoadTracks
ScansTrackOpen ==
    /\ pc = "tracks"
    /\ NextLine.ok
    /\ Len(Sscanf(NextLine.buf, FmtTrack)) = 1

\* C24: the tracks after the master are the track-open lines read by the
\* outer loop of LoadTracks: the number of tracks pushed or being read grows
\* by one in a step that reads a track-open line in the outer loop and in no
\* other step, so a track-open line read inside a track body opens nothing
\* and leaves the track being read and the counter as they are; and a track
\* whose body the end of input cuts off is pushed, with the options applied
\* to what was read.
C24_TracksAreScannedOpens ==
    [][AfterMaster =>
         /\ (Len(project'.Tracks) + OpenTracks(pc'))
              - (Len(project.Tracks) + OpenTracks(pc))
              = IF ScansTrackOpen THEN 1 ELSE 0
         /\ InTrack => trackCount' = trackCount
         /\ (InTrack /\ OpenTracks(pc') = 1) =>
              /\ track'.GUID = track.GUID
              /\ track'.NumericID = track.NumericID
              /\ project'.Tracks = project.Tracks
         /\ (pc = "trackBody" /\ ~NextLine.ok) =>
              /\ pc' = "tracks"
              /\ Len(project'.Tracks) = Len(project.Tracks) + 1
              /\ Last(project'.Tracks).GUID = track.GUID
              /\ Last(project'.Tracks).Name = track.Name
              /\ Normalized(track.Volume, track.Pan,
                            Last(project'.Tracks).Volume, Last(project'.Tracks).Pan)
         /\ pc' = "done" => Len(project'.Tracks) = trackCount + 1
      ]_vars

\* C24, its case: a project returned from a file that ends with a
\* track-open line, a VOLPAN line and a second track-open line and has no
\* track-close line: one track after the master, the first one opened, with
\* its volume in decibels.
C24_Witness ==
    /\ pc = "done"
    /\ EndsWith(content, "  <TRACK {A}\n    VOLPAN 0.1 -1 -1 -1 1\n  <TRACK {0}\n")
    /\ ~HasLineStarting(trackFooter)
    /\ Len(returned.Tracks) = 2
    /\ returned.Tracks[2].GUID = "A"
    /\ returned.Tracks[2].Volume = ToDecibel(100)
    /\ returned.Tracks[2].Volume # Fin(100)

====
